---------------------------- MODULE Spec2Model ----------------------------
(***************************************************************************)
(* A model of homework.py: the workout records (Training and its three     *)
(* subclasses Running, SportsWalking, Swimming), the InfoMessage summary   *)
(* and the dispatcher read_package.                                        *)
(*                                                                         *)
(* Numbers.  Python evaluates the formulas in binary floating point.  The  *)
(* model evaluates them over exact rationals <<numerator, denominator>>    *)
(* (reduced, denominator > 0), in the order the source evaluates them, so  *)
(* 0.65 is 13/20 and 1.79 is 179/100.  What the model keeps of Python's    *)
(* arithmetic is the value of every expression up to rounding error and    *)
(* the ZeroDivisionError of a true division by zero.  Rounding error of    *)
(* the doubles themselves is outside the model.                            *)
(*                                                                         *)
(* Text.  The module is ASCII; the Russian words of MESSAGE_TEMPLATE are   *)
(* transliterated, the layout, punctuation and number format are kept.     *)
(***************************************************************************)
EXTENDS Integers, Sequences, FiniteSets, TLC

VARIABLES
    training,   \* the record bound to `training` (homework.py:200), or NoObject
    origin,     \* how that record was built (via) and from which arguments
    infos,      \* the InfoMessage objects created from it, oldest first
    ret,        \* the last call: operation, arguments, outcome
    first       \* for each metric operation, its first outcome on this record

vars == <<training, origin, infos, ret, first>>

(***************************************************************************)
(* Bounds of the model.                                                    *)
(***************************************************************************)
MaxArgs == 6    \* longest raw argument list handed to read_package
MaxInfos == 2   \* summaries kept per record

(***************************************************************************)
(* Rational arithmetic standing for Python's float operators.              *)
(***************************************************************************)
Abs(n) == IF n < 0 THEN -n ELSE n

RECURSIVE GCD(_, _)
GCD(a, b) == IF b = 0 THEN a ELSE GCD(b, a % b)

Gcd(a, b) == GCD(Abs(a), Abs(b))

\* n/d with d /= 0, reduced, with a positive denominator.
Norm(n, d) ==
    LET g == Gcd(n, d)
        s == IF d < 0 THEN -1 ELSE 1
    IN  <<s * (n \div g), s * (d \div g)>>

Num(i) == <<i, 1>>

\* x * y; the factors are reduced crosswise before they are multiplied.
RatMul(x, y) ==
    LET g1 == Gcd(x[1], y[2])
        g2 == Gcd(y[1], x[2])
    IN  IF x[1] = 0 \/ y[1] = 0 THEN <<0, 1>>
        ELSE <<(x[1] \div g1) * (y[1] \div g2), (x[2] \div g2) * (y[2] \div g1)>>

\* x + y over the least common denominator.
RatAdd(x, y) ==
    LET g == Gcd(x[2], y[2])
        l == (x[2] \div g) * y[2]
    IN  Norm(x[1] * (l \div x[2]) + y[1] * (l \div y[2]), l)

\* x / y for y /= 0.
RatDiv(x, y) == RatMul(x, Norm(y[2], y[1]))

(***************************************************************************)
(* Outcomes of evaluating a Python expression: a value or a raised         *)
(* exception.  The operators evaluate their left operand first, as Python  *)
(* does, and the first exception raised is the outcome.                    *)
(***************************************************************************)
NoValue == <<>>

Ok(v) == [exc |-> "none", val |-> v]

Raise(e) == [exc |-> e, val |-> NoValue]

OMul(x, y) ==
    IF x.exc /= "none" THEN x
    ELSE IF y.exc /= "none" THEN y
    ELSE Ok(RatMul(x.val, y.val))

OAdd(x, y) ==
    IF x.exc /= "none" THEN x
    ELSE IF y.exc /= "none" THEN y
    ELSE Ok(RatAdd(x.val, y.val))

\* Python's true division: ZeroDivisionError when the divisor is zero.
ODiv(x, y) ==
    IF x.exc /= "none" THEN x
    ELSE IF y.exc /= "none" THEN y
    ELSE IF y.val[1] = 0 THEN Raise("ZeroDivisionError")
    ELSE Ok(RatDiv(x.val, y.val))

\* x ** 2
OSquare(x) == OMul(x, x)

(***************************************************************************)
(* Class constants.                                                        *)
(***************************************************************************)
M_IN_KM == 1000
MIN_IN_HOUR == 60
CALORIES_MEAN_SPEED_MULTIPLIER == 18
SM_IN_M == 100
CALORIES_SPEED_MULTIPLIER == 2

CALORIES_MEAN_SPEED_SHIFT == <<179, 100>>           \* 1.79
MSEC_IN_KMHOUR == <<139, 500>>                      \* 0.278
CALORIES_WEIGHT_FIRST_MULTIPLIER == <<7, 200>>      \* 0.035
CALORIES_WEIGHT_SECOND_MULTIPLIER == <<29, 1000>>   \* 0.029
CALORIES_SPEED_SHIFT == <<11, 10>>                  \* 1.1

\* Mutant: Swimming's override of LEN_STEP is lost.
LEN_STEP_base(cls) == <<13, 20>>

\* LEN_STEP as attribute lookup finds it: Swimming overrides Training's.
LEN_STEP(cls) == IF cls = "Swimming" THEN <<69, 50>> ELSE <<13, 20>>

(***************************************************************************)
(* Constructors.  An object is the record of its instance attributes plus  *)
(* cls, its class.                                                         *)
(***************************************************************************)
NoObject == [cls |-> "None"]

Training_init(cls, action, duration, weight) ==
    [cls |-> cls, action |-> action, duration |-> duration, weight |-> weight]

SportsWalking_init(cls, action, duration, weight, height) ==
    [cls |-> cls, action |-> action, duration |-> duration, weight |-> weight,
     height |-> height]

\* Mutant: the two pool parameters are stored the wrong way round.
Swimming_init_swapped(cls, action, duration, weight, length_pool, count_pool) ==
    [cls |-> cls, action |-> action, duration |-> duration, weight |-> weight,
     length_pool |-> count_pool, count_pool |-> length_pool]

Swimming_init(cls, action, duration, weight, length_pool, count_pool) ==
    [cls |-> cls, action |-> action, duration |-> duration, weight |-> weight,
     length_pool |-> length_pool, count_pool |-> count_pool]

(***************************************************************************)
(* Methods of the records.  X_m is method m as class X defines it; m is    *)
(* the call self.m(), resolved by the class of self.                       *)
(***************************************************************************)
Training_get_distance(self) ==
    ODiv(OMul(Ok(Num(self.action)), Ok(LEN_STEP(self.cls))), Ok(Num(M_IN_KM)))

\* Mutant: Swimming measures its distance in laps, as its speed does.
get_distance_laps(self) ==
    IF self.cls = "Swimming"
    THEN ODiv(OMul(Ok(Num(self.length_pool)), Ok(Num(self.count_pool))),
              Ok(Num(M_IN_KM)))
    ELSE Training_get_distance(self)

get_distance(self) == Training_get_distance(self)

\* Mutant: a zero duration is answered with speed 0 instead of dividing.
Training_get_mean_speed_guarded(self) ==
    IF self.duration = 0 THEN Ok(<<0, 1>>)
    ELSE ODiv(get_distance(self), Ok(Num(self.duration)))

Training_get_mean_speed(self) ==
    ODiv(get_distance(self), Ok(Num(self.duration)))

Swimming_get_mean_speed(self) ==
    ODiv(ODiv(OMul(Ok(Num(self.length_pool)), Ok(Num(self.count_pool))),
              Ok(Num(M_IN_KM))),
         Ok(Num(self.duration)))

\* Mutant: Swimming's override of get_mean_speed is lost.
get_mean_speed_base(self) == Training_get_mean_speed(self)

get_mean_speed(self) ==
    IF self.cls = "Swimming" THEN Swimming_get_mean_speed(self)
    ELSE Training_get_mean_speed(self)

\* Mutant: the base class answers 0 instead of raising.
Training_get_spent_calories_default(self) == Ok(<<0, 1>>)

Training_get_spent_calories(self) == Raise("NotImplementedError")

\* Mutant: the shift is subtracted instead of added.
Running_get_spent_calories_minus(self) ==
    OMul(OMul(ODiv(OMul(OAdd(OMul(Ok(Num(CALORIES_MEAN_SPEED_MULTIPLIER)),
                                  get_mean_speed(self)),
                             Ok(<<-179, 100>>)),
                        Ok(Num(self.weight))),
                   Ok(Num(M_IN_KM))),
              Ok(Num(self.duration))),
         Ok(Num(MIN_IN_HOUR)))

Running_get_spent_calories(self) ==
    OMul(OMul(ODiv(OMul(OAdd(OMul(Ok(Num(CALORIES_MEAN_SPEED_MULTIPLIER)),
                                  get_mean_speed(self)),
                             Ok(CALORIES_MEAN_SPEED_SHIFT)),
                        Ok(Num(self.weight))),
                   Ok(Num(M_IN_KM))),
              Ok(Num(self.duration))),
         Ok(Num(MIN_IN_HOUR)))

SportsWalking_get_spent_calories(self) ==
    OMul(OMul(OAdd(OMul(Ok(CALORIES_WEIGHT_FIRST_MULTIPLIER), Ok(Num(self.weight))),
                   OMul(OMul(OMul(ODiv(OSquare(OMul(get_mean_speed(self),
                                                    Ok(MSEC_IN_KMHOUR))),
                                       Ok(Num(self.height))),
                                  Ok(Num(SM_IN_M))),
                             Ok(CALORIES_WEIGHT_SECOND_MULTIPLIER)),
                        Ok(Num(self.weight)))),
              Ok(Num(self.duration))),
         Ok(Num(MIN_IN_HOUR)))

Swimming_get_spent_calories(self) ==
    OMul(OMul(OMul(OAdd(get_mean_speed(self), Ok(CALORIES_SPEED_SHIFT)),
                   Ok(Num(CALORIES_SPEED_MULTIPLIER))),
              Ok(Num(self.weight))),
         Ok(Num(self.duration)))

get_spent_calories(self) ==
    CASE self.cls = "Running" -> Running_get_spent_calories(self)
      [] self.cls = "SportsWalking" -> SportsWalking_get_spent_calories(self)
      [] self.cls = "Swimming" -> Swimming_get_spent_calories(self)
      [] OTHER -> Training_get_spent_calories(self)

\* InfoMessage(...): the dataclass's generated __init__ stores its arguments.
InfoMessage_init(training_type, duration, distance, speed, calories) ==
    [training_type |-> training_type, duration |-> duration,
     distance |-> distance, speed |-> speed, calories |-> calories]

\* The arguments are evaluated in order; the first exception ends the call.
show_training_info(self) ==
    LET distance == get_distance(self)
        speed == get_mean_speed(self)
        calories == get_spent_calories(self)
    IN  IF distance.exc /= "none" THEN distance
        ELSE IF speed.exc /= "none" THEN speed
        ELSE IF calories.exc /= "none" THEN calories
        ELSE Ok(InfoMessage_init(self.cls, self.duration, distance.val,
                                 speed.val, calories.val))

(***************************************************************************)
(* InfoMessage.get_message.                                                *)
(***************************************************************************)
Pad3(k) ==
    IF k < 10 THEN "00" \o ToString(k)
    ELSE IF k < 100 THEN "0" \o ToString(k)
    ELSE ToString(k)

\* The format specification .3f: fixed point, three decimals, the sign kept,
\* rounded to the nearest thousandth (an exact tie to the even one).
Fmt3(q) ==
    LET n == Abs(q[1])
        d == q[2]
        ip == n \div d
        r0 == n % d
        d1 == (r0 * 10) \div d
        r1 == (r0 * 10) % d
        d2 == (r1 * 10) \div d
        r2 == (r1 * 10) % d
        d3 == (r2 * 10) \div d
        r3 == (r2 * 10) % d
        trunc == ip * 1000 + d1 * 100 + d2 * 10 + d3
        up == 2 * r3 > d \/ (2 * r3 = d /\ trunc % 2 = 1)
        scaled == IF up THEN trunc + 1 ELSE trunc
        sign == IF q[1] < 0 THEN "-" ELSE ""
    IN  sign \o ToString(scaled \div 1000) \o "." \o Pad3(scaled % 1000)

get_message(self) ==
    "Tip trenirovki: " \o self.training_type
    \o "; Dlitelnost: " \o Fmt3(Num(self.duration)) \o " ch."
    \o "; Distantsiya: " \o Fmt3(self.distance) \o " km"
    \o "; Sr. skorost: " \o Fmt3(self.speed) \o " km/ch"
    \o "; Potracheno kkal: " \o Fmt3(self.calories) \o "."

(***************************************************************************)
(* The dispatcher.                                                         *)
(***************************************************************************)
training_types ==
    [RUN |-> "Running", WLK |-> "SportsWalking", SWM |-> "Swimming"]

\* cls(*data): the list is spread over the constructor's parameters; a list
\* of another length than the parameter list is a TypeError of the call.
Construct(cls, data) ==
    CASE cls = "Running" ->
            IF Len(data) = 3
            THEN Ok(Training_init(cls, data[1], data[2], data[3]))
            ELSE Raise("TypeError")
      [] cls = "SportsWalking" ->
            IF Len(data) = 4
            THEN Ok(SportsWalking_init(cls, data[1], data[2], data[3], data[4]))
            ELSE Raise("TypeError")
      [] cls = "Swimming" ->
            IF Len(data) = 5
            THEN Ok(Swimming_init(cls, data[1], data[2], data[3], data[4], data[5]))
            ELSE Raise("TypeError")
      [] OTHER ->
            IF Len(data) = 3
            THEN Ok(Training_init(cls, data[1], data[2], data[3]))
            ELSE Raise("TypeError")

\* Mutant: an unknown code falls back to the base class instead of raising.
read_package_default(workout_type, data) ==
    LET cls == IF workout_type \in DOMAIN training_types
               THEN training_types[workout_type] ELSE "Training"
        out == Construct(cls, data)
    IN  [exc |-> out.exc, val |-> out.val, called |-> cls]

\* The outcome, and in `called` the class whose constructor was called.
read_package(workout_type, data) ==
    IF workout_type \notin DOMAIN training_types
    THEN [exc |-> "ValueError", val |-> NoValue, called |-> "none"]
    ELSE LET out == Construct(training_types[workout_type], data)
         IN  [exc |-> out.exc, val |-> out.val,
              called |-> training_types[workout_type]]

(***************************************************************************)
(* Inputs.                                                                 *)
(***************************************************************************)
Actions == {-10000, 0, 10000, 20000}
Durations == {0, 1, 2}
Weights == {50, 80}
Fourths == {0, 25, 50}      \* height, or length_pool
Fifths == {0, 2, 40}        \* count_pool

ArgValues(i) ==
    CASE i = 1 -> Actions
      [] i = 2 -> Durations
      [] i = 3 -> Weights
      [] i = 4 -> Fourths
      [] i = 5 -> Fifths
      [] OTHER -> {1}

RECURSIVE Lists(_)
Lists(k) ==
    IF k = 0 THEN {<<>>}
    ELSE {Append(s, v) : s \in Lists(k - 1), v \in ArgValues(k)}

\* The packages of the driver that the model's 32-bit integers can evaluate
\* (the SportsWalking package's calories need a wider numerator).
Packages == {<<"SWM", <<720, 1, 80, 25, 40>>>>, <<"RUN", <<15000, 1, 75>>>>}

Codes == {"RUN", "WLK", "SWM", "XYZ", "run"}

Inputs ==
    Packages \cup {<<c, d>> : c \in Codes, d \in UNION {Lists(k) : k \in 0..MaxArgs}}

(***************************************************************************)
(* The state machine.                                                      *)
(***************************************************************************)
MetricOps ==
    {"get_distance", "get_mean_speed", "get_spent_calories", "show_training_info"}

NoFirst == [op \in MetricOps |-> {}]

Start == [op |-> "start", args |-> <<>>, exc |-> "none", val |-> NoValue,
          called |-> "none"]

NoOrigin == [via |-> "none", args |-> <<>>]

Init ==
    /\ training = NoObject
    /\ origin = NoOrigin
    /\ infos = <<>>
    /\ ret = Start
    /\ first = NoFirst

Outcome(out) == [exc |-> out.exc, val |-> out.val]

Remember(op, out) ==
    [first EXCEPT ![op] = IF @ = {} THEN {Outcome(out)} ELSE @]

\* training = read_package(workout_type, data)   (homework.py:200)
ReadPackage ==
    /\ ret.op = "start"
    /\ \E in \in Inputs :
          LET out == read_package(in[1], in[2])
          IN  /\ training' = IF out.exc = "none" THEN out.val ELSE NoObject
              /\ origin' = IF out.exc = "none"
                           THEN [via |-> "read_package", args |-> in]
                           ELSE NoOrigin
              /\ ret' = [op |-> "read_package", args |-> in, exc |-> out.exc,
                         val |-> out.val, called |-> out.called]
    /\ infos' = <<>>
    /\ first' = NoFirst

\* Training(action, duration, weight): the base class used directly.
NewTraining ==
    /\ ret.op = "start"
    /\ \E a \in Actions, d \in Durations, w \in Weights :
          LET out == Construct("Training", <<a, d, w>>)
          IN  /\ training' = out.val
              /\ ret' = [op |-> "Training", args |-> <<a, d, w>>, exc |-> out.exc,
                         val |-> out.val, called |-> "Training"]
              /\ origin' = [via |-> "direct", args |-> <<a, d, w>>]
    /\ infos' = <<>>
    /\ first' = NoFirst

Call(op, out) ==
    /\ ret' = [op |-> op, args |-> <<>>, exc |-> out.exc, val |-> out.val,
               called |-> "none"]
    /\ first' = Remember(op, out)

\* Mutant: get_distance keeps its result on the record (self.distance = ...).
GetDistance_caching ==
    /\ training /= NoObject
    /\ Call("get_distance", get_distance(training))
    /\ training' = [k \in DOMAIN training \cup {"distance"} |->
                       IF k = "distance" THEN get_distance(training).val
                       ELSE training[k]]
    /\ UNCHANGED <<origin, infos>>

GetDistance ==
    /\ training /= NoObject
    /\ Call("get_distance", get_distance(training))
    /\ UNCHANGED <<training, origin, infos>>

GetMeanSpeed ==
    /\ training /= NoObject
    /\ Call("get_mean_speed", get_mean_speed(training))
    /\ UNCHANGED <<training, origin, infos>>

GetSpentCalories ==
    /\ training /= NoObject
    /\ Call("get_spent_calories", get_spent_calories(training))
    /\ UNCHANGED <<training, origin, infos>>

\* info = training.show_training_info()   (homework.py:188)
ShowTrainingInfo ==
    /\ training /= NoObject
    /\ Len(infos) < MaxInfos
    /\ LET out == show_training_info(training)
       IN  /\ Call("show_training_info", out)
           /\ infos' = IF out.exc = "none" THEN Append(infos, out.val) ELSE infos
    /\ UNCHANGED <<training, origin>>

\* Mutant: get_message rounds the summary's calories in place before rendering.
GetMessage_rounding ==
    /\ \E i \in DOMAIN infos :
          /\ ret' = [op |-> "get_message", args |-> <<i>>, exc |-> "none",
                     val |-> get_message(infos[i]), called |-> "none"]
          /\ infos' = [infos EXCEPT ![i].calories =
                                       Num(infos[i].calories[1] \div infos[i].calories[2])]
    /\ UNCHANGED <<training, origin, first>>

\* info.get_message()   (homework.py:189)
GetMessage ==
    /\ \E i \in DOMAIN infos :
          ret' = [op |-> "get_message", args |-> <<i>>, exc |-> "none",
                  val |-> get_message(infos[i]), called |-> "none"]
    /\ UNCHANGED <<training, origin, infos, first>>

\* The driver's loop moves on: main has returned, its summary is gone, and
\* `training` is about to be bound to the next package's record.
NextPackage ==
    /\ training /= NoObject
    /\ training' = NoObject
    /\ origin' = NoOrigin
    /\ infos' = <<>>
    /\ ret' = Start
    /\ first' = NoFirst

Next ==
    \/ ReadPackage
    \/ NewTraining
    \/ GetDistance
    \/ GetMeanSpeed
    \/ GetSpentCalories
    \/ ShowTrainingInfo
    \/ GetMessage
    \/ NextPackage

Spec == Init /\ [][Next]_vars

(***************************************************************************)
(* Properties.                                                             *)
(***************************************************************************)
Recognized == {"RUN", "WLK", "SWM"}

Variants == {"Running", "SportsWalking", "Swimming"}

\* x < y for two rationals.
RatLess(x, y) == x[1] * y[2] < y[1] * x[2]

LabelOf(code) ==
    CASE code = "RUN" -> "Running"
      [] code = "WLK" -> "SportsWalking"
      [] code = "SWM" -> "Swimming"

FieldsOf(code) ==
    CASE code = "RUN" -> {"cls", "action", "duration", "weight"}
      [] code = "WLK" -> {"cls", "action", "duration", "weight", "height"}
      [] code = "SWM" -> {"cls", "action", "duration", "weight", "length_pool",
                          "count_pool"}

\* C1: read_package with a code other than "RUN", "WLK", "SWM" raises
\* ValueError whatever the argument list and its length; no constructor is
\* called and no record exists afterwards.
C1_UnknownCodeIsValueError ==
    (ret.op = "read_package" /\ ret.args[1] \notin Recognized) =>
        /\ ret.exc = "ValueError"
        /\ ret.called = "none"
        /\ training = NoObject
        /\ origin = NoOrigin

\* An unknown code with three arguments, the length Running would accept.
C1_Witness ==
    /\ ret.op = "read_package"
    /\ ret.args[1] = "XYZ"
    /\ Len(ret.args[2]) = 3
    /\ ret.exc = "ValueError"

\* C2: a recognized code with an argument list of the variant's length gives
\* a record of that variant whose fields are the arguments in declared order,
\* and every summary of that record carries the variant's label.
C2_PositionalConstruction ==
    /\ (/\ ret.op = "read_package"
        /\ ret.args[1] \in Recognized
        /\ Len(ret.args[2]) = Cardinality(FieldsOf(ret.args[1])) - 1) =>
            /\ ret.exc = "none"
            /\ ret.called = LabelOf(ret.args[1])
            /\ training = ret.val
            /\ origin = [via |-> "read_package", args |-> ret.args]
    /\ origin.via = "read_package" =>
          LET code == origin.args[1]
              data == origin.args[2]
          IN  /\ training.cls = LabelOf(code)
              /\ DOMAIN training = FieldsOf(code)
              /\ training.action = data[1]
              /\ training.duration = data[2]
              /\ training.weight = data[3]
              /\ code = "WLK" => training.height = data[4]
              /\ code = "SWM" => /\ training.length_pool = data[4]
                                 /\ training.count_pool = data[5]
              /\ \A i \in DOMAIN infos : infos[i].training_type = LabelOf(code)

\* A Swimming record read from five arguments, with a summary made of it.
C2_Witness ==
    /\ origin.via = "read_package"
    /\ origin.args[1] = "SWM"
    /\ training.length_pool = 25
    /\ training.count_pool = 40
    /\ infos /= <<>>
    /\ infos[1].training_type = "Swimming"

RunPackage == <<"RUN", <<15000, 1, 75>>>>

\* C3 as stated: the message of read_package("RUN", [15000, 1, 75]) reports
\* duration 1.000, distance 9.750, mean speed 9.750 and 741.825 kcal.
C3_Original ==
    (ret.op = "get_message" /\ origin.via = "read_package" /\ origin.args = RunPackage) =>
        ret.val = "Tip trenirovki: Running; Dlitelnost: 1.000 ch.; "
                  \o "Distantsiya: 9.750 km; Sr. skorost: 9.750 km/ch; "
                  \o "Potracheno kkal: 741.825."

\* C3 amended: the message of read_package("RUN", [15000, 1, 75]) reports
\* duration 1.000, distance 9.750, mean speed 9.750 and 797.805 kcal, the
\* value of (18 * 9.75 + 1.79) * 75 / 1000 * 1 * 60.
C3_RunMessage ==
    (ret.op = "get_message" /\ origin.via = "read_package" /\ origin.args = RunPackage) =>
        /\ ret.val = "Tip trenirovki: Running; Dlitelnost: 1.000 ch.; "
                     \o "Distantsiya: 9.750 km; Sr. skorost: 9.750 km/ch; "
                     \o "Potracheno kkal: 797.805."
        /\ infos[ret.args[1]].calories = <<159561, 200>>

C3_Witness ==
    /\ ret.op = "get_message"
    /\ origin.via = "read_package"
    /\ origin.args = RunPackage

\* C4: with a nonzero duration, get_mean_speed of a Running or SportsWalking
\* record is get_distance() / duration; of a Swimming record it is
\* length_pool * count_pool / 1000 / duration, whatever action is.
C4_MeanSpeed ==
    (ret.op = "get_mean_speed" /\ training.cls \in Variants /\ training.duration /= 0) =>
        /\ ret.exc = "none"
        /\ training.cls \in {"Running", "SportsWalking"} =>
              RatMul(ret.val, Num(training.duration)) = get_distance(training).val
        /\ training.cls = "Swimming" =>
              /\ RatMul(RatMul(ret.val, Num(training.duration)), Num(1000))
                    = Num(training.length_pool * training.count_pool)
              /\ \A a \in Actions :
                    get_mean_speed([training EXCEPT !.action = a]).val = ret.val

\* A Swimming record whose lap speed differs from its step distance per hour.
C4_Witness ==
    /\ ret.op = "get_mean_speed"
    /\ training.cls = "Swimming"
    /\ training.duration = 2
    /\ ret.exc = "none"
    /\ RatMul(ret.val, Num(training.duration)) /= get_distance(training).val

\* C5: get_distance is action * LEN_STEP / 1000 with LEN_STEP 0.65 for
\* Running and SportsWalking and 1.38 for Swimming; it is 0 for action 0 and
\* strictly increasing in action, whatever the other fields are.
C5_Distance ==
    (ret.op = "get_distance" /\ training.cls \in Variants) =>
        /\ ret.exc = "none"
        /\ RatMul(ret.val, Num(1000)) =
              RatMul(Num(training.action),
                     IF training.cls = "Swimming" THEN <<138, 100>> ELSE <<65, 100>>)
        /\ training.action = 0 => ret.val = <<0, 1>>
        /\ \A a, b \in Actions :
              a < b => RatLess(get_distance([training EXCEPT !.action = a]).val,
                               get_distance([training EXCEPT !.action = b]).val)

\* 20000 strokes are 27.6 km.
C5_Witness ==
    /\ ret.op = "get_distance"
    /\ training.cls = "Swimming"
    /\ training.action = 20000
    /\ ret.val = <<138, 5>>

\* C6: get_spent_calories on a base Training record raises
\* NotImplementedError (not the dispatcher's ValueError, and never a number);
\* no call on a record returned by read_package raises it, as read_package
\* only returns records of the three variants.
C6_BaseCaloriesUnimplemented ==
    /\ (ret.op = "get_spent_calories" /\ training.cls = "Training") =>
          /\ ret.exc = "NotImplementedError"
          /\ ret.exc /= "ValueError"
          /\ ret.val = NoValue
    /\ origin.via = "read_package" =>
          /\ training.cls \in Variants
          /\ ret.exc /= "NotImplementedError"
          /\ get_spent_calories(training).exc /= "NotImplementedError"

\* The base record with duration 0, where a division could have come first.
C6_Witness ==
    /\ ret.op = "get_spent_calories"
    /\ training.cls = "Training"
    /\ training.duration = 0
    /\ ret.exc = "NotImplementedError"

\* C7: on a record of any variant with duration 0, get_mean_speed,
\* get_spent_calories and show_training_info raise ZeroDivisionError while
\* get_distance returns; on a SportsWalking record with height 0 and a
\* nonzero duration, get_spent_calories and show_training_info raise it.
\* No summary is made in either case.
C7_DegenerateInputsRaise ==
    /\ (training.cls \in Variants /\ training.duration = 0) =>
          /\ ret.op \in {"get_mean_speed", "get_spent_calories", "show_training_info"}
                => (ret.exc = "ZeroDivisionError" /\ ret.val = NoValue)
          /\ ret.op = "get_distance" => ret.exc = "none"
          /\ infos = <<>>
    /\ (training.cls = "SportsWalking" /\ training.duration /= 0 /\ training.height = 0) =>
          /\ ret.op \in {"get_spent_calories", "show_training_info"}
                => (ret.exc = "ZeroDivisionError" /\ ret.val = NoValue)
          /\ ret.op \in {"get_distance", "get_mean_speed"} => ret.exc = "none"
          /\ infos = <<>>

\* show_training_info on a Running record of duration 0, after its calories
\* were asked for.
C7_Witness ==
    /\ training.cls = "Running"
    /\ training.duration = 0
    /\ first["get_spent_calories"] /= {}
    /\ ret.op = "show_training_info"
    /\ ret.exc = "ZeroDivisionError"

\* C8: once show_training_info has created a summary, no operation on it or
\* on its record changes any of its fields for as long as it lives (until
\* the driver moves to the next package), so get_message renders the same
\* string of it each time.
C8_SummaryImmutable ==
    [][\A i \in DOMAIN infos :
          ret'.op /= "start" =>
              /\ i \in DOMAIN infos'
              /\ infos'[i] = infos[i]
              /\ get_message(infos'[i]) = get_message(infos[i])]_vars

\* Two summaries exist and the first is rendered after the second was made.
C8_Witness ==
    /\ Len(infos) = 2
    /\ ret.op = "get_message"
    /\ ret.args = <<1>>
    /\ ret.val = get_message(infos[1])

\* C9: get_distance, get_mean_speed, get_spent_calories and
\* show_training_info leave the record as it was, attribute for attribute
\* (none changed, none added), and each returns at every call what it
\* returned at its first call on that record; what get_distance returns
\* after show_training_info is the distance in the summary.
C9_MetricsArePure ==
    /\ [][ret'.op \in MetricOps =>
             /\ training' = training
             /\ DOMAIN training' = DOMAIN training]_vars
    /\ [](ret.op \in MetricOps =>
             /\ first[ret.op] = {[exc |-> ret.exc, val |-> ret.val]}
             /\ DOMAIN training = {"cls", "action", "duration", "weight"}
                                   \cup (IF training.cls = "SportsWalking"
                                         THEN {"height"}
                                         ELSE IF training.cls = "Swimming"
                                         THEN {"length_pool", "count_pool"}
                                         ELSE {})
             /\ (ret.op = "get_distance" /\ infos /= <<>>) =>
                    ret.val = infos[1].distance)

\* get_distance called on a SportsWalking record after show_training_info,
\* which called it too, and after the other two metrics.
C9_Witness ==
    /\ training.cls = "SportsWalking"
    /\ ret.op = "get_distance"
    /\ infos /= <<>>
    /\ \A op \in MetricOps : first[op] /= {}

\* C10: the summary of a Swimming record reports the step-based distance
\* action * 1.38 / 1000, which does not depend on the pool fields, the
\* lap-based speed, and the calories (speed + 1.1) * 2 * weight * duration,
\* neither of which depends on action.
C10_SwimmingAsymmetry ==
    \A i \in DOMAIN infos :
        training.cls = "Swimming" =>
            LET m == infos[i]
            IN  /\ RatMul(m.distance, Num(1000)) =
                      RatMul(Num(training.action), <<138, 100>>)
                /\ RatMul(RatMul(m.speed, Num(training.duration)), Num(1000))
                      = Num(training.length_pool * training.count_pool)
                /\ m.calories =
                      RatMul(RatMul(RatMul(RatAdd(m.speed, <<11, 10>>), Num(2)),
                                    Num(training.weight)),
                             Num(training.duration))
                /\ \A l \in Fourths, c \in Fifths :
                      show_training_info([training EXCEPT !.length_pool = l,
                                                          !.count_pool = c]
                                        ).val.distance = m.distance
                /\ \A a \in Actions :
                      LET other == show_training_info([training EXCEPT !.action = a]).val
                      IN  other.speed = m.speed /\ other.calories = m.calories

\* The reported distance is not the reported speed times the duration.
C10_Witness ==
    /\ training.cls = "Swimming"
    /\ infos /= <<>>
    /\ infos[1].distance /= RatMul(infos[1].speed, Num(infos[1].duration))
    /\ infos[1].distance = <<138, 5>>
    /\ infos[1].speed = <<1, 1>>

=============================================================================
